---- MODULE Spec2Model ----
(***************************************************************************)
(* Model of lib/browser/objects-registry.js: the reference-counted table   *)
(* of remote objects (storage), the per-owner sets of referenced ids       *)
(* (owners), the process-swap map (contexts), and the two one-shot         *)
(* WebContents listeners ('render-view-deleted', 'render-frame-changed').  *)
(***************************************************************************)
EXTENDS Integers, Sequences, FiniteSets, TLC

\* ------------------------------------------------------------------ bounds
NumWebContents == 1
NumProcesses == 2
NumContexts == 2
NumObjects == 2
MaxId == 2
MaxSubscriptions == 2

WebContentsIds == 1..NumWebContents
ProcessIds == 1..NumProcesses
ContextIds == 1..NumContexts
Objects == 1..NumObjects
Ids == 1..MaxId

\* ------------------------------------------------------------------- state
VARIABLES
  nextId,      \* this.nextId
  storage,     \* this.storage: id -> [object, count]
  owners,      \* this.owners: ownerKey -> [contextId, storageSet]
  contexts,    \* this.contexts: contextId -> [oldOwnerKey, newOwnerKey]
  atomId,      \* v8Util hidden value 'atomId' of each object (0: not set)
  processOf,   \* webContents.getProcessId() of each WebContents
  deleted,     \* 'render-view-deleted' listeners of each WebContents, in order
  changed,     \* 'render-frame-changed' listeners of each WebContents, in order
  subscribed   \* how many times add has subscribed the two listeners so far

registry == <<nextId, storage, owners, contexts, atomId, processOf, deleted, changed>>

vars == <<registry, subscribed>>

\* The registry and its collaborators as one value, so that the methods are
\* operators from a registry to a registry.
This == [nextId |-> nextId, storage |-> storage, owners |-> owners,
         contexts |-> contexts, atomId |-> atomId, processOf |-> processOf,
         deleted |-> deleted, changed |-> changed]

\* ------------------------------------------------------------- getOwnerKey
\* `${id}-${processId}`; idText is the text of webContents.id, currentProcessId
\* is webContents.getProcessId(), processId = 0 stands for the omitted argument.
getOwnerKey(idText, currentProcessId, processId) ==
  IF processId = 0
    THEN idText \o "-" \o ToString(currentProcessId)
    ELSE idText \o "-" \o ToString(processId)

\* The text of webContents.id when webContents is a WebContents.
IdOfWebContents(w) == ToString(w)

\* The text of webContents.id when the argument passed as webContents is
\* itself a number (line 156 passes webContents.id): a number has no id.
IdOfNumber(n) == "undefined"

\* Every owner key the model can form.
OwnerKeys ==
  {getOwnerKey(IdOfWebContents(w), p, 0) : w \in WebContentsIds, p \in ProcessIds}
    \cup {getOwnerKey(IdOfNumber(w), 0, p) : w \in WebContentsIds, p \in ProcessIds}

\* ------------------------------------------------------------ Handle store
\* constructor
NewRegistry ==
  [nextId |-> 0, storage |-> <<>>, owners |-> <<>>, contexts |-> <<>>,
   atomId |-> [o \in Objects |-> 0],
   processOf |-> [w \in WebContentsIds |-> 1],
   deleted |-> [w \in WebContentsIds |-> <<>>],
   changed |-> [w \in WebContentsIds |-> <<>>]]

Without(f, k) == [x \in (DOMAIN f) \ {k} |-> f[x]]

\* get(id): the object, or 0 for undefined.
get(R, id) == IF id \in DOMAIN R.storage THEN R.storage[id].object ELSE 0

\* saveToStorage handing out the lowest id that is free instead of ++nextId.
saveToStorage_ReusesFreedId(R, object) ==
  IF R.atomId[object] # 0
    THEN [reg |-> R, id |-> R.atomId[object]]
    ELSE LET id == CHOOSE i \in 1..(R.nextId + 1) :
                     /\ i \notin DOMAIN R.storage
                     /\ \A j \in 1..(i - 1) : j \in DOMAIN R.storage
         IN [reg |-> [R EXCEPT !.nextId = IF id > @ THEN id ELSE @,
                               !.storage = (id :> [count |-> 0, object |-> object]) @@ @,
                               !.atomId[object] = id],
             id |-> id]

\* saveToStorage allocating without reading the hidden value 'atomId'.
saveToStorage_IgnoresHiddenValue(R, object) ==
  LET id == R.nextId + 1
  IN [reg |-> [R EXCEPT !.nextId = id,
                        !.storage = (id :> [count |-> 0, object |-> object]) @@ @,
                        !.atomId[object] = id],
      id |-> id]

\* saveToStorage(object): the registry afterwards and the id returned.
saveToStorage(R, object) ==
  IF R.atomId[object] # 0
    THEN [reg |-> R, id |-> R.atomId[object]]
    ELSE LET id == R.nextId + 1
         IN [reg |-> [R EXCEPT !.nextId = id,
                               !.storage = (id :> [count |-> 0, object |-> object]) @@ @,
                               !.atomId[object] = id],
             id |-> id]

\* dereference deleting the entry one decrement late (count < 0 for count === 0).
dereference_OneLate(R, id) ==
  IF id \notin DOMAIN R.storage
    THEN R
    ELSE LET count == R.storage[id].count - 1
         IN IF count < 0
              THEN [R EXCEPT !.atomId[R.storage[id].object] = 0,
                             !.storage = Without(@, id)]
              ELSE [R EXCEPT !.storage[id].count = count]

\* dereference deleting the entry without v8Util.deleteHiddenValue.
dereference_KeepsHiddenValue(R, id) ==
  IF id \notin DOMAIN R.storage
    THEN R
    ELSE LET count == R.storage[id].count - 1
         IN IF count = 0
              THEN [R EXCEPT !.storage = Without(@, id)]
              ELSE [R EXCEPT !.storage[id].count = count]

\* dereference(id)
dereference(R, id) ==
  IF id \notin DOMAIN R.storage
    THEN R
    ELSE LET count == R.storage[id].count - 1
         IN IF count = 0
              THEN [R EXCEPT !.atomId[R.storage[id].object] = 0,
                             !.storage = Without(@, id)]
              ELSE [R EXCEPT !.storage[id].count = count]

\* for (let id of owner.storageSet) this.dereference(id)
RECURSIVE dereferenceAll(_, _)
dereferenceAll(R, ids) ==
  IF ids = {} THEN R
  ELSE LET id == CHOOSE i \in ids : \A j \in ids : i <= j
       IN dereferenceAll(dereference(R, id), ids \ {id})

\* --------------------------------------------------------------- listeners
\* A listener is the closure's captured values.
registerDeleteListener(R, w, ownerKey, contextId) ==
  [R EXCEPT !.deleted[w] = Append(@, [processId |-> R.processOf[w],
                                      ownerKey |-> ownerKey,
                                      contextId |-> contextId])]

registerProcessChangeListener(R, w, ownerKey, contextId) ==
  [R EXCEPT !.changed[w] = Append(@, [processId |-> R.processOf[w],
                                      ownerKey |-> ownerKey,
                                      contextId |-> contextId])]

registerListeners(R, w, ownerKey, contextId) ==
  registerProcessChangeListener(
    registerDeleteListener(R, w, ownerKey, contextId), w, ownerKey, contextId)

\* --------------------------------------------------------------------- add
\* Lines 67-71 counting an id only when no owner referenced it before.
addToOwner_CountsFirstOwnerOnly(R, ownerKey, id) ==
  IF id \in R.owners[ownerKey].storageSet
    THEN R
    ELSE [R EXCEPT !.owners[ownerKey].storageSet = @ \cup {id},
                   !.storage[id].count = IF @ = 0 THEN 1 ELSE @]

\* Lines 67-71: count the id once per owner.
addToOwner(R, ownerKey, id) ==
  IF id \in R.owners[ownerKey].storageSet
    THEN R
    ELSE [R EXCEPT !.owners[ownerKey].storageSet = @ \cup {id},
                   !.storage[id].count = @ + 1]

\* Lines 51-65 with the new record taking over the old record's storageSet.
reconcile_MovesStorageSet(R, w, ownerKey, contextId) ==
  LET oldContextId == R.owners[ownerKey].contextId
      pending == oldContextId \in DOMAIN R.contexts
                   /\ R.contexts[oldContextId].oldOwnerKey = ownerKey
  IN IF pending
       THEN LET newOwnerKey == R.contexts[oldContextId].newOwnerKey
                R1 == [R EXCEPT !.owners =
                         (newOwnerKey :> [contextId |-> contextId,
                                          storageSet |-> R.owners[ownerKey].storageSet]) @@ @]
                R2 == [R1 EXCEPT !.contexts = Without(@, R1.owners[newOwnerKey].contextId)]
            IN [reg |-> registerListeners(R2, w, newOwnerKey, contextId),
                ownerKey |-> newOwnerKey]
       ELSE [reg |-> registerListeners(
                       [R EXCEPT !.owners[ownerKey].contextId = contextId],
                       w, ownerKey, contextId),
             ownerKey |-> ownerKey]

\* Lines 51-65 with the reload branch dropping the ids of the old contextId.
reconcile_PurgesOnReload(R, w, ownerKey, contextId) ==
  LET oldContextId == R.owners[ownerKey].contextId
      pending == oldContextId \in DOMAIN R.contexts
                   /\ R.contexts[oldContextId].oldOwnerKey = ownerKey
  IN IF pending
       THEN LET newOwnerKey == R.contexts[oldContextId].newOwnerKey
                R1 == [R EXCEPT !.owners =
                         (newOwnerKey :> [contextId |-> contextId, storageSet |-> {}]) @@ @]
                R2 == [R1 EXCEPT !.contexts = Without(@, R1.owners[newOwnerKey].contextId)]
            IN [reg |-> registerListeners(R2, w, newOwnerKey, contextId),
                ownerKey |-> newOwnerKey]
       ELSE [reg |-> registerListeners(
                       [R EXCEPT !.owners[ownerKey] =
                          [contextId |-> contextId, storageSet |-> {}]],
                       w, ownerKey, contextId),
             ownerKey |-> ownerKey]

\* Lines 51-65: the owner's contextId differs from the one given.
reconcile(R, w, ownerKey, contextId) ==
  LET oldContextId == R.owners[ownerKey].contextId
      pending == oldContextId \in DOMAIN R.contexts
                   /\ R.contexts[oldContextId].oldOwnerKey = ownerKey
  IN IF pending
       THEN LET newOwnerKey == R.contexts[oldContextId].newOwnerKey
                \* owner = this.owners[newOwnerKey] = {contextId, new Set()}
                R1 == [R EXCEPT !.owners =
                         (newOwnerKey :> [contextId |-> contextId, storageSet |-> {}]) @@ @]
                \* delete this.contexts[owner.contextId]: owner is the new record
                R2 == [R1 EXCEPT !.contexts = Without(@, R1.owners[newOwnerKey].contextId)]
            IN [reg |-> registerListeners(R2, w, newOwnerKey, contextId),
                ownerKey |-> newOwnerKey]
       ELSE [reg |-> registerListeners(
                       [R EXCEPT !.owners[ownerKey].contextId = contextId],
                       w, ownerKey, contextId),
             ownerKey |-> ownerKey]

\* add(webContents, contextId, obj): the registry afterwards and the id returned.
add(R, w, contextId, obj) ==
  LET saved == saveToStorage(R, obj)
      R0 == saved.reg
      id == saved.id
      ownerKey == getOwnerKey(IdOfWebContents(w), R0.processOf[w], 0)
      res == IF ownerKey \notin DOMAIN R0.owners
               THEN [reg |-> registerListeners(
                               [R0 EXCEPT !.owners =
                                  (ownerKey :> [contextId |-> contextId, storageSet |-> {}]) @@ @],
                               w, ownerKey, contextId),
                     ownerKey |-> ownerKey]
             ELSE IF R0.owners[ownerKey].contextId # contextId
               THEN reconcile(R0, w, ownerKey, contextId)
               ELSE [reg |-> R0, ownerKey |-> ownerKey]
  IN [reg |-> addToOwner(res.reg, res.ownerKey, id), id |-> id]

\* ------------------------------------------------------------------ remove
\* remove checking only that the owner exists, not its contextId.
remove_AnyContext(R, w, contextId, id) ==
  LET ownerKey == getOwnerKey(IdOfWebContents(w), R.processOf[w], 0)
  IN IF ownerKey \in DOMAIN R.owners
       THEN dereference([R EXCEPT !.owners[ownerKey].storageSet = @ \ {id}], id)
       ELSE R

\* remove(webContents, contextId, id)
remove(R, w, contextId, id) ==
  LET ownerKey == getOwnerKey(IdOfWebContents(w), R.processOf[w], 0)
  IN IF ownerKey \in DOMAIN R.owners /\ R.owners[ownerKey].contextId = contextId
       THEN dereference([R EXCEPT !.owners[ownerKey].storageSet = @ \ {id}], id)
       ELSE R

\* ------------------------------------------------------------------- clear
\* clear(ownerKey, contextId)
clear(R, ownerKey, contextId) ==
  IF ownerKey \notin DOMAIN R.owners \/ R.owners[ownerKey].contextId # contextId
    THEN R
    ELSE LET R1 == dereferenceAll(R, R.owners[ownerKey].storageSet)
         IN [R1 EXCEPT !.owners = Without(@, ownerKey),
                       !.contexts = Without(@, contextId)]

\* ------------------------------------------------- 'render-view-deleted'
\* The listener without its check of deletedProcessId.
RECURSIVE emitDeleted_AnyProcess(_, _, _, _, _)
emitDeleted_AnyProcess(R, snapshot, i, fired, deletedProcessId) ==
  IF i > Len(snapshot)
    THEN [reg |-> R, fired |-> fired]
    ELSE LET l == snapshot[i]
         IN emitDeleted_AnyProcess(clear(R, l.ownerKey, l.contextId), snapshot, i + 1,
                                   fired \cup {i}, deletedProcessId)

\* The listener of registerDeleteListener, the i-th of the emit's snapshot;
\* fired is the set of snapshot positions whose listener removed itself.
RECURSIVE emitDeleted(_, _, _, _, _)
emitDeleted(R, snapshot, i, fired, deletedProcessId) ==
  IF i > Len(snapshot)
    THEN [reg |-> R, fired |-> fired]
    ELSE LET l == snapshot[i]
         IN IF deletedProcessId = l.processId
              THEN emitDeleted(clear(R, l.ownerKey, l.contextId), snapshot, i + 1,
                               fired \cup {i}, deletedProcessId)
              ELSE emitDeleted(R, snapshot, i + 1, fired, deletedProcessId)

\* No listener removes itself.
RECURSIVE keep_NoneRemoved(_, _, _)
keep_NoneRemoved(snapshot, i, fired) ==
  IF i > Len(snapshot) THEN <<>>
  ELSE <<snapshot[i]>> \o keep_NoneRemoved(snapshot, i + 1, fired)

\* The listeners left after those at the positions in fired removed themselves.
RECURSIVE keep(_, _, _)
keep(snapshot, i, fired) ==
  IF i > Len(snapshot) THEN <<>>
  ELSE IF i \in fired THEN keep(snapshot, i + 1, fired)
  ELSE <<snapshot[i]>> \o keep(snapshot, i + 1, fired)

renderViewDeleted(R, w, deletedProcessId) ==
  LET out == emitDeleted(R, R.deleted[w], 1, {}, deletedProcessId)
  IN [out.reg EXCEPT !.deleted[w] = keep(R.deleted[w], 1, out.fired)]

\* ------------------------------------------------- 'render-frame-changed'
RECURSIVE emitChanged(_, _, _, _, _, _, _)
emitChanged(R, w, snapshot, i, fired, oldProcessId, newProcessId) ==
  IF i > Len(snapshot)
    THEN [reg |-> R, fired |-> fired]
    ELSE LET l == snapshot[i]
         IN IF oldProcessId = l.processId /\ l.ownerKey \in DOMAIN R.owners
              THEN LET newOwnerKey == getOwnerKey(IdOfNumber(w), 0, newProcessId)
                       R1 == [R EXCEPT !.contexts =
                                (l.contextId :> [oldOwnerKey |-> l.ownerKey,
                                                 newOwnerKey |-> newOwnerKey]) @@ @]
                   IN emitChanged(R1, w, snapshot, i + 1, fired \cup {i},
                                  oldProcessId, newProcessId)
              ELSE emitChanged(R, w, snapshot, i + 1, fired, oldProcessId, newProcessId)

renderFrameChanged(R, w, oldProcessId, newProcessId) ==
  LET out == emitChanged(R, w, R.changed[w], 1, {}, oldProcessId, newProcessId)
  IN [out.reg EXCEPT !.changed[w] = keep(R.changed[w], 1, out.fired)]

\* ----------------------------------------------------------------- actions
Becomes(R) ==
  /\ nextId' = R.nextId
  /\ storage' = R.storage
  /\ owners' = R.owners
  /\ contexts' = R.contexts
  /\ atomId' = R.atomId
  /\ processOf' = R.processOf
  /\ deleted' = R.deleted
  /\ changed' = R.changed

Init ==
  /\ nextId = NewRegistry.nextId
  /\ storage = NewRegistry.storage
  /\ owners = NewRegistry.owners
  /\ contexts = NewRegistry.contexts
  /\ atomId = NewRegistry.atomId
  /\ processOf = NewRegistry.processOf
  /\ deleted = NewRegistry.deleted
  /\ changed = NewRegistry.changed
  /\ subscribed = 0

\* add(webContents, contextId, obj), while nextId stays within MaxId and the
\* number of subscriptions within maxSubscriptions.
AddWithin(w, contextId, obj, maxSubscriptions) ==
  LET out == add(This, w, contextId, obj)
      subscriptions == Len(out.reg.deleted[w]) - Len(deleted[w])
  IN /\ out.reg.nextId <= MaxId
     /\ subscribed + subscriptions <= maxSubscriptions
     /\ Becomes(out.reg)
     /\ subscribed' = subscribed + subscriptions

Add(w, contextId, obj) == AddWithin(w, contextId, obj, MaxSubscriptions)

\* remove(webContents, contextId, id)
Remove(w, contextId, id) ==
  /\ Becomes(remove(This, w, contextId, id))
  /\ UNCHANGED subscribed

\* clear(ownerKey, contextId)
Clear(ownerKey, contextId) ==
  /\ Becomes(clear(This, ownerKey, contextId))
  /\ UNCHANGED subscribed

\* webContents.emit('render-view-deleted', event, deletedProcessId)
RenderViewDeleted(w, deletedProcessId) ==
  /\ Becomes(renderViewDeleted(This, w, deletedProcessId))
  /\ UNCHANGED subscribed

\* webContents.emit('render-frame-changed', event, oldProcessId, newProcessId),
\* for any two process ids: the listener compares only oldProcessId.
RenderFrameChanged(w, oldProcessId, newProcessId) ==
  /\ Becomes(renderFrameChanged(This, w, oldProcessId, newProcessId))
  /\ UNCHANGED subscribed

\* The WebContents is now backed by another render process:
\* webContents.getProcessId() answers processId from here on.
ProcessSwapped(w, processId) ==
  /\ processId # processOf[w]
  /\ processOf' = [processOf EXCEPT ![w] = processId]
  /\ UNCHANGED <<nextId, storage, owners, contexts, atomId, deleted, changed, subscribed>>

Next ==
  \/ \E w \in WebContentsIds, c \in ContextIds, o \in Objects : Add(w, c, o)
  \/ \E w \in WebContentsIds, c \in ContextIds, id \in Ids : Remove(w, c, id)
  \/ \E k \in OwnerKeys, c \in ContextIds : Clear(k, c)
  \/ \E w \in WebContentsIds, p \in ProcessIds : RenderViewDeleted(w, p)
  \/ \E w \in WebContentsIds, p \in ProcessIds, q \in ProcessIds :
       RenderFrameChanged(w, p, q)
  \/ \E w \in WebContentsIds, p \in ProcessIds : ProcessSwapped(w, p)

Spec == Init /\ [][Next]_vars

\* The same operations with one subscription more, on a single object: the
\* behaviours in which the listeners are subscribed again and again.
OneObject == {CHOOSE o \in Objects : \A other \in Objects : o <= other}

NextOneObject ==
  \/ \E w \in WebContentsIds, c \in ContextIds, o \in OneObject :
       AddWithin(w, c, o, MaxSubscriptions + 1)
  \/ \E w \in WebContentsIds, c \in ContextIds, id \in Ids : Remove(w, c, id)
  \/ \E k \in OwnerKeys, c \in ContextIds : Clear(k, c)
  \/ \E w \in WebContentsIds, p \in ProcessIds : RenderViewDeleted(w, p)
  \/ \E w \in WebContentsIds, p \in ProcessIds, q \in ProcessIds :
       RenderFrameChanged(w, p, q)
  \/ \E w \in WebContentsIds, p \in ProcessIds : ProcessSwapped(w, p)

SpecOneObject == Init /\ [][NextOneObject]_vars

\* ------------------------------------------------------------------ claims
\* The owner key add and remove compute for WebContents w.
CurrentKey(w) == getOwnerKey(IdOfWebContents(w), processOf[w], 0)

KeyAt(w, p) == getOwnerKey(IdOfWebContents(w), p, 0)

\* The owner records whose storageSet contains id.
Holders(id) == {k \in DOMAIN owners : id \in owners[k].storageSet}

Counts(R) == [id \in DOMAIN R.storage |-> R.storage[id].count]

\* remove and clear go past their check of the owner and its contextId.
Accepted(k, c) == k \in DOMAIN owners /\ owners[k].contextId = c

\* C1: in every reachable state the count of every id in storage is the number
\* of owner records whose storageSet contains the id.
C1_CountIsNumberOfOwners ==
  \A id \in DOMAIN storage : storage[id].count = Cardinality(Holders(id))

\* C2: in every reachable state every id in some owner's storageSet is in
\* storage, so get(id) answers its object.
C2_ReferencedIsStored ==
  \A k \in DOMAIN owners : \A id \in owners[k].storageSet :
    id \in DOMAIN storage /\ get(This, id) # 0

\* C3: in every reachable state with no owner record, storage is empty.
C3_NoOwnersNoObjects ==
  DOMAIN owners = {} => DOMAIN storage = {}

\* The state of the migration scenario before its second add: the owner under
\* (w, p1) has contextId c and holds the id of obj, whose count is 1; the swap
\* listener wrote the entry of c; w is now backed by p2, which has no owner.
MigrationScenario(w, c, obj, p1, p2) ==
  /\ p1 # p2
  /\ processOf[w] = p2
  /\ atomId[obj] # 0
  /\ atomId[obj] \in DOMAIN storage
  /\ storage[atomId[obj]].count = 1
  /\ KeyAt(w, p1) \in DOMAIN owners
  /\ owners[KeyAt(w, p1)].contextId = c
  /\ atomId[obj] \in owners[KeyAt(w, p1)].storageSet
  /\ c \in DOMAIN contexts
  /\ contexts[c].oldOwnerKey = KeyAt(w, p1)
  /\ KeyAt(w, p2) \notin DOMAIN owners

\* What the second add of the migration scenario answers: the same id, still
\* the same object under it, and the given count.
MigrationAdd(count) ==
  \A w \in WebContentsIds, c \in ContextIds, obj \in Objects,
     p1 \in ProcessIds, p2 \in ProcessIds :
    MigrationScenario(w, c, obj, p1, p2) =>
      LET out == add(This, w, c, obj)
      IN /\ out.id = atomId[obj]
         /\ get(out.reg, out.id) = obj
         /\ out.reg.storage[out.id].count = count

\* C4 as the spec states it: after add(E1 at P1, ctxA, objX), the swap
\* notification (P1, P2) and add(E1 at P2, ctxA, objX), the second add answers
\* the same id, get answers objX and the count is still 1.
C4_MigratedCountStaysOne == MigrationAdd(1)

\* C4, amended: in that scenario the second add answers the same id and get
\* answers objX, and the count is 2: the record under (E1, P1) still holds the
\* id and the record created under (E1, P2) counts it once more.
C4_MigratedCountIsTwo == MigrationAdd(2)

\* C4: the scenario has run: both records have contextId c and hold the id.
C4_Witness ==
  \E w \in WebContentsIds, c \in ContextIds, p1 \in ProcessIds, id \in DOMAIN storage :
    /\ processOf[w] # p1
    /\ Accepted(KeyAt(w, p1), c) /\ id \in owners[KeyAt(w, p1)].storageSet
    /\ Accepted(CurrentKey(w), c) /\ id \in owners[CurrentKey(w)].storageSet
    /\ c \in DOMAIN contexts /\ contexts[c].oldOwnerKey = KeyAt(w, p1)
    /\ storage[id].count = 2

\* C5: from every reachable state, a second add with the same WebContents (same
\* process), contextId and object answers the id of the first and leaves the
\* counts, owners and contexts as the first add left them.
C5_AddIdempotent ==
  \A w \in WebContentsIds, c \in ContextIds, obj \in Objects :
    LET first == add(This, w, c, obj)
        second == add(first.reg, w, c, obj)
    IN /\ second.id = first.id
       /\ Counts(second.reg) = Counts(first.reg)
       /\ second.reg.owners = first.reg.owners
       /\ second.reg.contexts = first.reg.contexts

\* C6: every entry of storage has a count of at least 1 and an id that nextId
\* has passed; an id that was allocated and is no longer in storage never comes
\* back, so get(id) stays absent; every new entry, and so the id a released
\* object gets when it is added again, is greater than every id allocated before.
C6_IdsInUse ==
  /\ \A id \in DOMAIN storage : id \in 1..nextId /\ storage[id].count >= 1
  /\ \A obj \in Objects : \A w \in WebContentsIds, c \in ContextIds :
       atomId[obj] = 0 =>
         LET out == add(This, w, c, obj)
         IN /\ out.id > nextId
            /\ \A id \in 1..nextId : id \notin DOMAIN storage => get(out.reg, id) = 0

\* C6, as a step: nextId never decreases, absent ids stay absent, new ids are new.
C6_IdsStep ==
  /\ nextId' >= nextId
  /\ \A id \in 1..nextId : id \notin DOMAIN storage => id \notin DOMAIN storage'
  /\ \A id \in (DOMAIN storage') \ (DOMAIN storage) : id > nextId

\* C6: the two parts together: once the count of an id reaches zero its entry
\* is gone for good, and every id allocated later is greater.
C6_NeverReused == []C6_IdsInUse /\ [][C6_IdsStep]_vars

\* C6: id 1 was released and a later add allocated id 2, which is in storage.
C6_Witness ==
  /\ nextId = 2
  /\ 1 \notin DOMAIN storage
  /\ 2 \in DOMAIN storage

\* C7: remove and clear for an owner key with no record, or with a record whose
\* contextId is another one, change nothing.
C7_StaleCallsIgnored ==
  /\ \A w \in WebContentsIds, c \in ContextIds, id \in Ids :
       ~Accepted(CurrentKey(w), c) => remove(This, w, c, id) = This
  /\ \A k \in OwnerKeys, c \in ContextIds :
       ~Accepted(k, c) => clear(This, k, c) = This

\* C7: the WebContents' current owner holds an id under one contextId and the
\* other contextId has a migration entry a mismatched clear would delete.
C7_Witness ==
  \E w \in WebContentsIds, c \in DOMAIN contexts :
    /\ CurrentKey(w) \in DOMAIN owners
    /\ owners[CurrentKey(w)].contextId # c
    /\ owners[CurrentKey(w)].storageSet # {}
    /\ \E id \in owners[CurrentKey(w)].storageSet : id \in DOMAIN storage

\* C8: a clear that is accepted decrements by one the count of each id of the
\* owner's storageSet and of no other id, deletes the owner record and the
\* migration entry of its contextId; afterwards the ids only that owner held
\* are gone from storage and the ids another owner holds too are still there.
C8_ClearReleasesOwnedOnly ==
  \A k \in OwnerKeys, c \in ContextIds :
    Accepted(k, c) =>
      LET after == clear(This, k, c)
          held == owners[k].storageSet
      IN /\ \A id \in held :
              /\ id \in DOMAIN storage
              /\ IF id \in DOMAIN after.storage
                   THEN after.storage[id].count = storage[id].count - 1
                   ELSE storage[id].count = 1
         /\ \A id \in (DOMAIN storage) \ held :
              id \in DOMAIN after.storage /\ after.storage[id] = storage[id]
         /\ k \notin DOMAIN after.owners
         /\ c \notin DOMAIN after.contexts
         /\ \A id \in held : Holders(id) = {k} => get(after, id) = 0
         /\ \A id \in held : Holders(id) # {k} => get(after, id) # 0

\* C9: after a remove that takes the count of id from 1 to 0, id is gone from
\* storage, and a second remove with the same arguments changes nothing: no
\* table, no other id's count, and get(id) is still absent.
C9_DoubleRemove ==
  \A w \in WebContentsIds, c \in ContextIds, id \in DOMAIN storage :
    (Accepted(CurrentKey(w), c) /\ storage[id].count = 1) =>
      LET first == remove(This, w, c, id)
          second == remove(first, w, c, id)
      IN /\ id \notin DOMAIN first.storage
         /\ second = first
         /\ get(second, id) = 0

\* C9: a remove has released id 1 from an owner that is still there, and another
\* id is in storage.
C9_Witness ==
  \E w \in WebContentsIds :
    /\ CurrentKey(w) \in DOMAIN owners
    /\ 1 \notin owners[CurrentKey(w)].storageSet
    /\ nextId = 2
    /\ 1 \notin DOMAIN storage
    /\ 2 \in DOMAIN storage
    /\ atomId = [o \in Objects |-> IF o = 2 THEN 2 ELSE 0]

\* C10: in every reachable state every entry of storage has a count of at least
\* 1, and an object has the hidden value id exactly when storage has an entry
\* for id that holds the object.
C10_CountsPositiveTagsMatch ==
  /\ \A id \in DOMAIN storage : storage[id].count >= 1
  /\ \A obj \in Objects : \A id \in 1..nextId :
       atomId[obj] = id <=> (id \in DOMAIN storage /\ storage[id].object = obj)
  /\ \A obj \in Objects : atomId[obj] \in 0..nextId

\* C10: one object was released (its id 1 is gone and its hidden value with it)
\* while another is held by two owners.
C10_Witness ==
  /\ 1 \notin DOMAIN storage
  /\ 2 \in DOMAIN storage
  /\ storage[2].count = 2
  /\ \E obj \in Objects : atomId[obj] = 0

\* add(w, c, ..) is a confirming registration: the owner under the key add
\* computes has another contextId, and the migration entry of that contextId
\* names this key as its old owner key (line 52).
Confirming(w, c) ==
  /\ CurrentKey(w) \in DOMAIN owners
  /\ owners[CurrentKey(w)].contextId # c
  /\ owners[CurrentKey(w)].contextId \in DOMAIN contexts
  /\ contexts[owners[CurrentKey(w)].contextId].oldOwnerKey = CurrentKey(w)

\* The migration entry a confirming add(w, ..) reads.
PendingEntry(w) == contexts[owners[CurrentKey(w)].contextId]

\* C11: a confirming add consumes the migration entry it found: afterwards the
\* entry keyed by the old record's contextId is gone, and the same add again
\* does not replace the record under the new owner key a second time.
C11_ConfirmingAddConsumesEntry ==
  \A w \in WebContentsIds, c \in ContextIds, obj \in Objects :
    Confirming(w, c) =>
      LET first == add(This, w, c, obj)
          second == add(first.reg, w, c, obj)
          newOwnerKey == PendingEntry(w).newOwnerKey
      IN /\ owners[CurrentKey(w)].contextId \notin DOMAIN first.reg.contexts
         /\ second.reg.owners[newOwnerKey] = first.reg.owners[newOwnerKey]

\* C12: the newOwnerKey a swap listener of WebContents w writes for the
\* notification (oldProcessId, newProcessId) is the key add and remove compute
\* for w once newProcessId backs it.
C12_NewOwnerKeyIsKeyOfNewProcess ==
  \A w \in WebContentsIds, p \in ProcessIds, q \in ProcessIds :
    LET after == renderFrameChanged(This, w, p, q)
    IN \A i \in DOMAIN changed[w] :
         (changed[w][i].processId = p /\ changed[w][i].ownerKey \in DOMAIN owners) =>
           /\ changed[w][i].contextId \in DOMAIN after.contexts
           /\ after.contexts[changed[w][i].contextId].newOwnerKey = KeyAt(w, q)

\* The count of the id of obj, 0 when obj has no entry.
CountOf(obj) == IF get(This, atomId[obj]) = obj THEN storage[atomId[obj]].count ELSE 0

\* The closure add subscribes for ownerKey and contextId on WebContents w.
ListenerOf(w, ownerKey, contextId) ==
  [processId |-> processOf[w], ownerKey |-> ownerKey, contextId |-> contextId]

\* C13: a confirming add(w, c, obj) creates the record under the entry's
\* newOwnerKey with contextId c and a storageSet of exactly the id of obj,
\* counts that id once more, and subscribes both listeners for the new key.
C13_ConfirmingAddCreatesNewOwner ==
  \A w \in WebContentsIds, c \in ContextIds, obj \in Objects :
    Confirming(w, c) =>
      LET out == add(This, w, c, obj)
          newOwnerKey == PendingEntry(w).newOwnerKey
      IN /\ newOwnerKey \in DOMAIN out.reg.owners
         /\ out.reg.owners[newOwnerKey] = [contextId |-> c, storageSet |-> {out.id}]
         /\ out.reg.storage[out.id].count = CountOf(obj) + 1
         /\ out.reg.deleted[w] = Append(deleted[w], ListenerOf(w, newOwnerKey, c))
         /\ out.reg.changed[w] = Append(changed[w], ListenerOf(w, newOwnerKey, c))

\* C13: a confirming add has run: the record under an entry's newOwnerKey holds
\* one id, which the old record holds too, and the listeners subscribed last
\* are the ones of the new key.
C13_Witness ==
  \E w \in WebContentsIds, c1 \in DOMAIN contexts :
    LET k == contexts[c1].newOwnerKey
        old == contexts[c1].oldOwnerKey
    IN /\ k \in DOMAIN owners /\ old \in DOMAIN owners
       /\ Cardinality(owners[k].storageSet) = 1
       /\ owners[k].storageSet \subseteq owners[old].storageSet
       /\ \A id \in owners[k].storageSet : id \in DOMAIN storage /\ storage[id].count = 2
       /\ Len(deleted[w]) > 0 /\ Len(changed[w]) > 0
       /\ deleted[w][Len(deleted[w])] = ListenerOf(w, k, owners[k].contextId)
       /\ changed[w][Len(changed[w])] = ListenerOf(w, k, owners[k].contextId)

\* add(w, c, ..) is a reload without swap: the owner under the key add computes
\* has another contextId and no migration entry names this key as its old key.
ReloadWithoutSwap(w, c) ==
  /\ CurrentKey(w) \in DOMAIN owners
  /\ owners[CurrentKey(w)].contextId # c
  /\ \A c1 \in DOMAIN contexts : contexts[c1].oldOwnerKey # CurrentKey(w)

\* C14: on a reload without swap, add(w, c2, obj) sets the record's contextId to
\* c2 in place, its storageSet is the previous one plus the id of obj, the
\* entries of the ids it held before are unchanged, and afterwards remove and
\* clear with the old contextId do nothing.
C14_ReloadUpdatesContextInPlace ==
  \A w \in WebContentsIds, c2 \in ContextIds, obj \in Objects :
    ReloadWithoutSwap(w, c2) =>
      LET out == add(This, w, c2, obj)
          k == CurrentKey(w)
          c1 == owners[k].contextId
      IN /\ out.reg.owners =
              [owners EXCEPT ![k] = [contextId |-> c2,
                                     storageSet |-> owners[k].storageSet \cup {out.id}]]
         /\ \A id \in owners[k].storageSet \cap DOMAIN storage :
              out.reg.storage[id] = storage[id]
         /\ out.reg.contexts = contexts
         /\ \A id \in Ids : remove(out.reg, w, c1, id) = out.reg
         /\ clear(out.reg, k, c1) = out.reg

\* C14: the only owner was reloaded: both subscriptions are for its key, the
\* first with the old contextId, and it holds the id from before the reload
\* and the one added with it.
C14_Witness ==
  \E w \in WebContentsIds :
    /\ DOMAIN owners = {CurrentKey(w)}
    /\ owners[CurrentKey(w)].storageSet = {1, 2}
    /\ DOMAIN storage = {1, 2}
    /\ storage[1].count = 1 /\ storage[2].count = 1
    /\ contexts = <<>>
    /\ subscribed = 2
    /\ Len(deleted[w]) = 2
    /\ deleted[w][1].ownerKey = CurrentKey(w)
    /\ deleted[w][1].contextId # owners[CurrentKey(w)].contextId
    /\ deleted[w][2] = ListenerOf(w, CurrentKey(w), owners[CurrentKey(w)].contextId)

\* The listeners of a sequence whose processId is not p, in order.
ScopedElsewhere(listeners, p) == SelectSeq(listeners, LAMBDA l : l.processId # p)

\* The 'render-view-deleted' listener on w at position i is the one subscribed
\* when the record under its ownerKey was created or last reconciled.
SubscribedForRecord(w, i) ==
  /\ deleted[w][i].ownerKey \in DOMAIN owners
  /\ owners[deleted[w][i].ownerKey].contextId = deleted[w][i].contextId

\* The storage after every id has been dereferenced once for each of the
\* owner records in cleared that held it.
DereferencedOncePerOwner(cleared) ==
  LET times(id) == Cardinality({k \in cleared : id \in owners[k].storageSet})
      left == {id \in DOMAIN storage : storage[id].count > times(id)}
  IN [id \in left |-> [storage[id] EXCEPT !.count = @ - times(id)]]

\* C15: a 'render-view-deleted' that reports the process id a WebContents had
\* when an owner record was created or last reconciled clears that record in
\* the same step: the record is gone (for the key of (w, p) in particular) and
\* each id it held is dereferenced once; a notification reporting another
\* process id leaves the record as it is and its listener subscribed, and
\* changes nothing at all when no listener is scoped to the process reported.
C15_DeletedClearsOwner ==
  \A w \in WebContentsIds, p \in ProcessIds :
    LET after == renderViewDeleted(This, w, p)
        cleared == (DOMAIN owners) \ (DOMAIN after.owners)
    IN /\ KeyAt(w, p) \notin DOMAIN after.owners
       /\ \A i \in DOMAIN deleted[w] :
            (SubscribedForRecord(w, i) /\ deleted[w][i].processId = p) =>
              deleted[w][i].ownerKey \in cleared
       /\ after.storage = DereferencedOncePerOwner(cleared)
       /\ \A i \in DOMAIN deleted[w] :
            (SubscribedForRecord(w, i) /\ deleted[w][i].processId # p) =>
              /\ deleted[w][i].ownerKey \in DOMAIN after.owners
              /\ after.owners[deleted[w][i].ownerKey] = owners[deleted[w][i].ownerKey]
       /\ after.deleted[w] = ScopedElsewhere(deleted[w], p)
       /\ (\A i \in DOMAIN deleted[w] : deleted[w][i].processId # p) => after = This

\* C15: the notification for process 1 cleared the owner created on process 1
\* and released its id; the owner created on process 2 and its listener stay.
C15_Witness ==
  \E w \in WebContentsIds :
    /\ subscribed = 2
    /\ DOMAIN owners = {KeyAt(w, 2)}
    /\ deleted[w] = <<[processId |-> 2, ownerKey |-> KeyAt(w, 2),
                       contextId |-> owners[KeyAt(w, 2)].contextId]>>
    /\ Len(changed[w]) = 2
    /\ nextId = 2
    /\ DOMAIN storage = {2}
    /\ owners[KeyAt(w, 2)].storageSet = {2}

\* The three tables of a registry.
Tables(R) == <<R.storage, R.owners, R.contexts>>

\* A 'render-frame-changed' listener writes an entry for old process p.
WritesEntry(l, p) == l.processId = p /\ l.ownerKey \in DOMAIN owners

\* C16: a listener that has handled its event is no longer subscribed: after
\* 'render-view-deleted' for p no listener scoped to p remains, after
\* 'render-frame-changed' from p exactly the listeners that wrote an entry are
\* gone, and delivering either notification a second time changes none of
\* storage, owners and contexts; a 'render-frame-changed' for which no listener
\* has the old process id and a living owner changes nothing.
C16_ListenerHandlesOneEvent ==
  \A w \in WebContentsIds, p \in ProcessIds :
    /\ LET d1 == renderViewDeleted(This, w, p)
           d2 == renderViewDeleted(d1, w, p)
       IN /\ \A i \in DOMAIN d1.deleted[w] : d1.deleted[w][i].processId # p
          /\ d2 = d1
    /\ \A q \in ProcessIds :
         LET f1 == renderFrameChanged(This, w, p, q)
             f2 == renderFrameChanged(f1, w, p, q)
         IN /\ f1.changed[w] = SelectSeq(changed[w], LAMBDA l : ~WritesEntry(l, p))
            /\ \A i \in DOMAIN changed[w] :
                 WritesEntry(changed[w][i], p) =>
                   changed[w][i].contextId \in DOMAIN f1.contexts
            /\ Tables(f2) = Tables(f1)
            /\ f2 = f1
            /\ (\A i \in DOMAIN changed[w] : ~WritesEntry(changed[w][i], p)) => f1 = This

\* C16: a swap listener has written its entry and is gone, while the destroyed
\* listener subscribed with it is still there.
C16_Witness ==
  \E w \in WebContentsIds :
    /\ subscribed = 1
    /\ Len(changed[w]) = 0
    /\ Len(deleted[w]) = 1
    /\ deleted[w][1].ownerKey \in DOMAIN owners
    /\ deleted[w][1].contextId \in DOMAIN contexts
    /\ contexts[deleted[w][1].contextId].oldOwnerKey = deleted[w][1].ownerKey

\* C17: after a process swap and the confirming add, the 'render-view-deleted'
\* of the old process leaves the owner record created under the new owner key
\* as the add made it, and the id the add returned can still be retrieved.
C17_MigratedOwnerSurvivesOldProcess ==
  \A w \in WebContentsIds, c \in ContextIds, obj \in Objects :
    Confirming(w, c) =>
      LET out == add(This, w, c, obj)
          newOwnerKey == PendingEntry(w).newOwnerKey
          after == renderViewDeleted(out.reg, w, processOf[w])
      IN /\ newOwnerKey \in DOMAIN after.owners
         /\ after.owners[newOwnerKey] = out.reg.owners[newOwnerKey]
         /\ get(after, out.id) = obj

\* C18: every migration entry that a 'render-frame-changed' writes or
\* rewrites is keyed by the context id that the owner record under its old
\* owner key has when the entry is written.
C18_EntryWrittenForCurrentContext ==
  \A w \in WebContentsIds, p \in ProcessIds, q \in ProcessIds :
    LET after == renderFrameChanged(This, w, p, q)
    IN \A i \in DOMAIN changed[w] :
         WritesEntry(changed[w][i], p) =>
           LET c == changed[w][i].contextId
           IN /\ after.contexts[c].oldOwnerKey \in DOMAIN owners
              /\ owners[after.contexts[c].oldOwnerKey].contextId = c

\* The number of listeners of a sequence that were subscribed for an owner key.
SubscribedFor(listeners, k) == Len(SelectSeq(listeners, LAMBDA l : l.ownerKey = k))

\* C19: for each owner key at most one 'render-view-deleted' listener and at
\* most one 'render-frame-changed' listener are subscribed.
C19_OneListenerPerOwnerKey ==
  \A w \in WebContentsIds, k \in OwnerKeys :
    /\ SubscribedFor(deleted[w], k) <= 1
    /\ SubscribedFor(changed[w], k) <= 1

\* The ids whose storage entry holds an object.
HandlesOf(obj) == {id \in DOMAIN storage : storage[id].object = obj}

\* C20: no two ids of storage hold the same object; while an object has an
\* entry, add of that object from any WebContents and context returns the id
\* of that entry and stores nothing new; the first id allocated is 1.
C20_HandleStableAndInjective ==
  /\ \A obj \in Objects : Cardinality(HandlesOf(obj)) <= 1
  /\ \A w \in WebContentsIds, c \in ContextIds, obj \in Objects :
       LET out == add(This, w, c, obj)
       IN /\ HandlesOf(obj) # {} =>
               /\ out.id \in HandlesOf(obj)
               /\ DOMAIN out.reg.storage = DOMAIN storage
               /\ out.reg.storage[out.id].object = obj
          /\ nextId = 0 => out.id = 1
  /\ nextId = 0 => storage = <<>>

\* C20: both objects are stored under different ids, and the first of them is
\* referenced from two owners under the one id.
C20_Witness ==
  /\ DOMAIN storage = {1, 2}
  /\ storage[1].object # storage[2].object
  /\ storage[1].count = 2
  /\ Cardinality(Holders(1)) = 2
  /\ storage[2].count = 1

====
